---- MODULE Spec2Model ----
(***************************************************************************)
(* A model of vpyapp.py (src/vpyapp.py): the per-package virtualenv cache. *)
(*                                                                         *)
(* Strings are sequences of one-character strings.  The record directory   *)
(* of a package is a small tree of existence flags; every external step    *)
(* (a subprocess, a directory or file creation) is a nondeterministic      *)
(* choice between success and failure.                                     *)
(***************************************************************************)
EXTENDS Naturals, Sequences, FiniteSets, TLC

VARIABLES
  disk,          \* apps_dir: directory name (identity hex) -> record tree
  bound,         \* Cli._package_spec of the live Cli object (None if unset)
  hashc,         \* Cli._package_spec_hash of the live Cli object (None if unset)
  pc,            \* position of the running command inside the Cli object
  args,          \* arguments of the running / last command
  pre,           \* history: the bound record's tree when do_install began
  updated,       \* do_install's local is_updated_venv
  steps,         \* history: external steps the running do_install executed
  exc,           \* the exception the running / last command is raising
  ret,           \* the value the last command returned (None if it raised)
  environ,       \* os.environ of the process
  no_venv_env,   \* Cli._no_venv_env: <<>> if unset, else <<the map>>
  venv_env,      \* Cli._venv_env: <<>> if unset, else <<the map>>
  rc,            \* the exit code of the last command: <<>> until it is over
  out,           \* the lines the last command printed
  nraw,          \* normalization alone: the raw specification
  nonce,         \* normalization alone: normalize(raw)
  ntwice,        \* normalization alone: normalize(normalize(raw))
  dirname,       \* search paths alone: the directory handed to the operations
  trail,         \* search paths alone: the sequence given, then each result
  ops,           \* search paths alone: the operations applied, in order
  env,           \* activation alone: the environment map handed in
  acts,          \* activation alone: the calls made on the map, in order
  envexc         \* activation alone: the exception the last call raised

vars == <<disk, bound, hashc, pc, args, pre, updated, steps, exc, ret,
          environ, no_venv_env, venv_env, rc, out,
          nraw, nonce, ntwice, dirname, trail, ops, env, acts, envexc>>

\* Python's None, for a text-valued field and for an exception slot.
NoText == <<"None">>
None == "None"

-----------------------------------------------------------------------------
(* Strings.                                                                *)

\* Longest raw specification drawn for normalization alone.
MaxSpecLen == 3

\* Characters a raw specification is drawn from: a name character, the path
\* separator, the dot, the tilde, the fragment marker, the scheme separator
\* and the two letters of the ".gz" suffix.
SpecChars == {"a", "/", ".", "~", "#", ":", "g", "z"}

RECURSIVE StringsUpTo(_)
StringsUpTo(n) ==
  IF n = 0 THEN {<<>>}
  ELSE LET shorter == StringsUpTo(n - 1)
       IN  shorter \cup {Append(s, c) : s \in {t \in shorter : Len(t) = n - 1},
                                        c \in SpecChars}

\* The sequences of at most n elements of S.
RECURSIVE SeqsUpTo(_, _)
SeqsUpTo(S, n) ==
  IF n = 0 THEN {<<>>}
  ELSE LET shorter == SeqsUpTo(S, n - 1)
       IN  shorter \cup {Append(q, e) : q \in {t \in shorter : Len(t) = n - 1},
                                        e \in S}

Contains(s, c) == \E i \in 1..Len(s) : s[i] = c

StartsWith(s, p) == Len(s) >= Len(p) /\ SubSeq(s, 1, Len(p)) = p

EndsWith(s, p) ==
  Len(s) >= Len(p) /\ SubSeq(s, Len(s) - Len(p) + 1, Len(s)) = p

\* The process's home directory and working directory.
HomeDir == <<"/", "h">>
Cwd == <<"/", "w">>

\* str.split('/'): the components between separators, empty ones included.
RECURSIVE SplitSlash(_)
SplitSlash(s) ==
  IF ~Contains(s, "/") THEN <<s>>
  ELSE LET i == CHOOSE k \in 1..Len(s) :
                  s[k] = "/" /\ \A j \in 1..(k - 1) : s[j] # "/"
       IN  <<SubSeq(s, 1, i - 1)>> \o SplitSlash(SubSeq(s, i + 1, Len(s)))

\* '/'.join(comps)
RECURSIVE JoinSlash(_)
JoinSlash(comps) ==
  IF comps = <<>> THEN <<>>
  ELSE IF Len(comps) = 1 THEN comps[1]
  ELSE comps[1] \o <<"/">> \o JoinSlash(Tail(comps))

\* os.path.expanduser: "~" and "~/..." take the home directory; "~name" of
\* a user the password database does not know is left alone.
ExpandUser(path) ==
  IF ~StartsWith(path, <<"~">>) THEN path
  ELSE IF Len(path) = 1 THEN HomeDir
  ELSE IF path[2] = "/" THEN HomeDir \o SubSeq(path, 2, Len(path))
  ELSE path

\* The loop of posixpath.normpath over the components.
RECURSIVE NormComps(_, _, _)
NormComps(comps, acc, rooted) ==
  IF comps = <<>> THEN acc
  ELSE LET comp == Head(comps)
           rest == Tail(comps)
       IN  IF comp = <<>> \/ comp = <<".">> THEN NormComps(rest, acc, rooted)
           ELSE IF \/ comp # <<".", ".">>
                   \/ (~rooted /\ acc = <<>>)
                   \/ (acc # <<>> /\ acc[Len(acc)] = <<".", ".">>)
                THEN NormComps(rest, Append(acc, comp), rooted)
           ELSE IF acc # <<>>
                THEN NormComps(rest, SubSeq(acc, 1, Len(acc) - 1), rooted)
           ELSE NormComps(rest, acc, rooted)

\* posixpath.normpath
NormPath(path) ==
  IF path = <<>> THEN <<".">>
  ELSE LET slashes == IF ~StartsWith(path, <<"/">>) THEN <<>>
                      ELSE IF StartsWith(path, <<"/", "/">>)
                              /\ ~StartsWith(path, <<"/", "/", "/">>)
                           THEN <<"/", "/">>
                      ELSE <<"/">>
           body == JoinSlash(NormComps(SplitSlash(path), <<>>, slashes # <<>>))
           res == slashes \o body
       IN  IF res = <<>> THEN <<".">> ELSE res

\* posixpath.abspath
AbsPath(path) ==
  IF StartsWith(path, <<"/">>) THEN NormPath(path)
  ELSE NormPath(Cwd \o <<"/">> \o path)

\* urllib.parse.quote_from_bytes with safe='/': letters, digits, "_.-~" and
\* "/" stay, every other byte becomes its percent escape.
QuoteChar(c) ==
  IF c = "#" THEN <<"%", "2", "3">>
  ELSE IF c = ":" THEN <<"%", "3", "A">>
  ELSE <<c>>

RECURSIVE Quote(_)
Quote(s) == IF s = <<>> THEN <<>> ELSE QuoteChar(Head(s)) \o Quote(Tail(s))

\* pathlib.Path(pathname).as_uri() of an absolute, normalized path.
AsUri(pathname) == <<"f", "i", "l", "e", ":", "/", "/">> \o Quote(pathname)

\* normalize_package_spec with a fault: the test for a scheme separator is
\* left out, so a file URI (which holds a "/") is rewritten again.
NormalizeNoSchemeTest(spec) ==
  IF Contains(spec, "/") \/ Contains(spec, "#")
     \/ EndsWith(spec, <<".", "g", "z">>)
  THEN AsUri(AbsPath(NormPath(ExpandUser(spec))))
  ELSE spec

\* Cli.normalize_package_spec
NormalizePackageSpec(spec) ==
  IF ~Contains(spec, ":")
     /\ (Contains(spec, "/") \/ Contains(spec, "#")
         \/ EndsWith(spec, <<".", "g", "z">>))
  THEN AsUri(AbsPath(NormPath(ExpandUser(spec))))
  ELSE spec

-----------------------------------------------------------------------------
(* Search paths.                                                           *)

\* os.pathsep
PathSep == ":"

\* str.split(os.pathsep): the pieces between separators, empty ones included.
RECURSIVE SplitPathSep(_)
SplitPathSep(s) ==
  IF ~Contains(s, PathSep) THEN <<s>>
  ELSE LET i == CHOOSE k \in 1..Len(s) :
                  s[k] = PathSep /\ \A j \in 1..(k - 1) : s[j] # PathSep
       IN  <<SubSeq(s, 1, i - 1)>> \o SplitPathSep(SubSeq(s, i + 1, Len(s)))

\* searchpath_split of a given text: the empty pieces are dropped.
SearchpathSplit(searchpath) ==
  SelectSeq(SplitPathSep(searchpath), LAMBDA x : x # <<>>)

\* searchpath_join
RECURSIVE SearchpathJoin(_)
SearchpathJoin(dirnames) ==
  IF dirnames = <<>> THEN <<>>
  ELSE IF Len(dirnames) = 1 THEN dirnames[1]
  ELSE dirnames[1] \o <<PathSep>> \o SearchpathJoin(Tail(dirnames))

\* What every search-path operation does to its directory first:
\* os.path.abspath(os.path.normpath(os.path.expanduser(dirname)))
NormDir(dir) == AbsPath(NormPath(ExpandUser(dir)))

InParts(parts, x) == \E i \in 1..Len(parts) : parts[i] = x

\* searchpath_parts_contains_dir
SearchpathPartsContainsDir(parts, dir) == InParts(parts, NormDir(dir))

\* searchpath_parts_remove_dir
SearchpathPartsRemoveDir(parts, dir) ==
  SelectSeq(parts, LAMBDA x : x # NormDir(dir))

\* searchpath_remove_dir
SearchpathRemoveDir(searchpath, dir) ==
  SearchpathJoin(SearchpathPartsRemoveDir(SearchpathSplit(searchpath), dir))

\* searchpath_parts_prepend with a fault: what was there is not removed.
PrependKeepsOld(parts, dir) == <<NormDir(dir)>> \o parts

\* searchpath_parts_prepend
SearchpathPartsPrepend(parts, dir) ==
  <<NormDir(dir)>> \o SearchpathPartsRemoveDir(parts, NormDir(dir))

\* searchpath_parts_prepend_if_missing with a fault: the directory is put
\* at the front whether it is there or not.
PrependAlways(parts, dir) == <<NormDir(dir)>> \o parts

\* searchpath_parts_prepend_if_missing
SearchpathPartsPrependIfMissing(parts, dir) ==
  IF InParts(parts, NormDir(dir)) THEN parts ELSE <<NormDir(dir)>> \o parts

\* searchpath_prepend_if_missing
SearchpathPrependIfMissing(searchpath, dir) ==
  SearchpathJoin(
    SearchpathPartsPrependIfMissing(SearchpathSplit(searchpath), dir))

\* searchpath_parts_force_append with a fault: what was there is not
\* removed.
ForceAppendKeepsOld(parts, dir) == parts \o <<NormDir(dir)>>

\* searchpath_parts_force_append
SearchpathPartsForceAppend(parts, dir) ==
  SearchpathPartsRemoveDir(parts, NormDir(dir)) \o <<NormDir(dir)>>

\* searchpath_parts_append
SearchpathPartsAppend(parts, dir) ==
  IF InParts(parts, NormDir(dir)) THEN parts ELSE parts \o <<NormDir(dir)>>

-----------------------------------------------------------------------------
(* Environment maps: the three variables activation reads and writes; a    *)
(* variable that is not set holds NoText.                                  *)

NoEnv == [VIRTUAL_ENV |-> NoText, POETRY_ACTIVE |-> NoText, PATH |-> NoText]

BinName == <<"b", "i", "n">>

\* os.path.join(a, b) of a relative b
OsPathJoin(a, b) ==
  IF a = <<>> THEN b
  ELSE IF a[Len(a)] = "/" THEN a \o b
  ELSE a \o <<"/">> \o b

\* deactivate_virtualenv with a fault: the binary directory stays on PATH.
DeactivateKeepsPath(e) ==
  IF e.VIRTUAL_ENV = NoText THEN e
  ELSE [e EXCEPT !.VIRTUAL_ENV = NoText, !.POETRY_ACTIVE = NoText]

\* deactivate_virtualenv(env): the map as the call leaves it.
DeactivateVirtualenv(e) ==
  IF e.VIRTUAL_ENV = NoText THEN e
  ELSE [VIRTUAL_ENV |-> NoText,
        POETRY_ACTIVE |-> NoText,
        PATH |-> IF e.PATH = NoText THEN NoText
                 ELSE SearchpathRemoveDir(e.PATH,
                                          OsPathJoin(e.VIRTUAL_ENV, BinName))]

\* activate_virtualenv(venv_dir, env): the map as the call leaves it, and
\* the exception it raises: env['PATH'] of a map without PATH is a KeyError,
\* raised after VIRTUAL_ENV was set.
ActivateVirtualenv(venv_dir, e) ==
  LET dir == NormDir(venv_dir)
      bin == OsPathJoin(dir, BinName)
      off == DeactivateVirtualenv(e)
      marked == [off EXCEPT !.VIRTUAL_ENV = dir]
  IN  IF off.PATH = NoText
      THEN [env |-> marked, exc |-> "KeyError"]
      ELSE [env |-> [marked EXCEPT
                       !.PATH = SearchpathPrependIfMissing(off.PATH, bin)],
            exc |-> None]

-----------------------------------------------------------------------------
(* Identity and the record directory.                                      *)

\* The characters of the modelled specifications, in a fixed order: a
\* character's byte value is its place here.
Alphabet == <<"a", "/", ".", "~", "#", ":", "g", "z", "%", "2", "3", "A",
              "f", "i", "l", "e", "p", "h", "w", " ">>

CharCode(c) == CHOOSE i \in 1..Len(Alphabet) : Alphabet[i] = c

HexDigits == <<"0", "1", "2", "3", "4", "5", "6", "7",
               "8", "9", "a", "b", "c", "d", "e", "f">>

\* The digest is DigestLen hexadecimal digits wide.
DigestLen == 4
DigestMod == 16 ^ DigestLen

RECURSIVE DigestOf(_, _)
DigestOf(s, h) ==
  IF s = <<>> THEN h
  ELSE DigestOf(Tail(s), (h * 33 + CharCode(Head(s))) % DigestMod)

RECURSIVE HexOf(_, _)
HexOf(n, width) ==
  IF width = 0 THEN <<>>
  ELSE Append(HexOf(n \div 16, width - 1), HexDigits[(n % 16) + 1])

\* hashlib.sha1(spec.encode('utf-8')).hexdigest(): a fixed-width hexadecimal
\* digest computed from the bytes of the specification alone.
Sha1Hex(spec) == HexOf(DigestOf(spec, 5381), DigestLen)

\* Cli.apps_dir: ~/.cache/vpyapp/apps
AppsDir ==
  HomeDir \o <<"/", ".", "c", "a", "c", "h", "e", "/", "v", "p", "y", "a",
               "p", "p", "/", "a", "p", "p", "s">>

\* Cli.app_dir of the identity hex h
AppDirOf(h) == AppsDir \o <<"/">> \o h

\* The raw specifications commands are called with: a registry reference, a
\* local path, and the file URI of that path.
SpecA == <<"a">>
SpecPath == <<"/", "p">>
SpecUri == <<"f", "i", "l", "e", ":", "/", "/", "/", "p">>
RawSpecs == {SpecA, SpecPath, SpecUri}

Identities == {Sha1Hex(NormalizePackageSpec(r)) : r \in RawSpecs}

\* A record directory that does not exist.
NoRecord ==
  [dir |-> FALSE, marker |-> FALSE, content |-> NoText,
   venv |-> FALSE, python |-> FALSE, pip |-> FALSE, pkg |-> FALSE]

\* The outcomes of `rm -fr app_dir` on an existing record directory: the
\* tree is gone (exit status 0), or the command fails part-way and leaves
\* the directory with any part of what it held (exit status nonzero).
RmTreeLeftovers(rec) ==
  {r \in [dir : {TRUE}, marker : {rec.marker, FALSE},
          content : {rec.content, NoText},
          venv : {rec.venv, FALSE}, python : {rec.python, FALSE},
          pip : {rec.pip, FALSE}, pkg : {rec.pkg, FALSE}] :
     /\ r.content = (IF r.marker THEN rec.content ELSE NoText)
     /\ (r.python \/ r.pip \/ r.pkg) => r.venv}

\* subprocess.call(['rm', '-fr', app_dir]): the exit status is not looked at.
RmTree(rec) ==
  {[rec |-> NoRecord, log |-> <<"rm_tree_ok">>]}
    \cup {[rec |-> r, log |-> <<"rm_tree_fail">>] : r \in RmTreeLeftovers(rec)}

\* Cli.remove_appdir: the marker file first, then the tree.
RemoveAppdir(rec) ==
  LET unmarked == IF rec.marker
                  THEN [rec EXCEPT !.marker = FALSE, !.content = NoText]
                  ELSE rec
      first == IF rec.marker THEN <<"rm_marker">> ELSE <<>>
  IN  IF unmarked.dir
      THEN {[rec |-> o.rec, log |-> first \o o.log] : o \in RmTree(unmarked)}
      ELSE {[rec |-> unmarked, log |-> first]}

-----------------------------------------------------------------------------
(* The Cli object and its commands.                                        *)

NoArgs == [cmd |-> "none", raw |-> NoText, update |-> FALSE, clean |-> FALSE]

envcache == <<no_venv_env, venv_env>>
shown == <<rc, out>>
clivars == <<environ, envcache, shown>>
normvars == <<nraw, nonce, ntwice>>
searchvars == <<dirname, trail, ops>>
envvars == <<env, acts, envexc>>
purevars == <<normvars, searchvars, envvars>>

\* The record directory of the bound specification.
Rec == disk[hashc]

Log(entries) == steps' = steps \o entries

\* The setter's assertion with a fault: any rebinding is accepted.
SetterAcceptsAny(current, spec) == TRUE

\* The assertion of the package_spec setter.
SetterAccepts(current, spec) == current = NoText \/ current = spec

\* Cli.package_spec_hash after binding `spec`: computed once, then reused.
HashAfterBind(spec) == IF hashc = NoText THEN Sha1Hex(spec) ELSE hashc

\* os.environ as the process finds it: inside an activated environment
\* (with poetry's flag), where deactivation has work to do, or without a
\* PATH.
EnvActivated ==
  [VIRTUAL_ENV |-> <<"/", "v">>, POETRY_ACTIVE |-> <<"1">>,
   PATH |-> <<"/", "v", "/", "b", "i", "n", ":", "/", "b">>]
Environs == {EnvActivated, NoEnv}

\* Cli.__init__: a new session starts with nothing bound and nothing cached;
\* it may be the session of another process, with another environment.
NewCli ==
  /\ pc = "idle"
  /\ bound # NoText
  /\ bound' = NoText
  /\ hashc' = NoText
  /\ no_venv_env' = <<>>
  /\ venv_env' = <<>>
  /\ environ' \in Environs
  /\ UNCHANGED <<disk, pc, args, pre, updated, steps, exc, ret,
                 shown, purevars>>

\* Cli.__call__ with a fault: every command exits with 0.
ExitCodeZero(e) == 0

\* Cli.__call__ and run: the exit code of a command that raised e (None if
\* it returned).  A CmdExitError carries its exit_code, 1 as the commands
\* raise it; any other exception gives 1; with --traceback the exception
\* is raised again, and the process ends with the same code.
ExitCode(e) ==
  IF e = None THEN 0
  ELSE IF e = "CmdExitError" THEN 1
  ELSE 1

\* The setter's assertion fails in a command called with `a`: the
\* AssertionError leaves the command before any of its work.
BindFails(a, handed) ==
  /\ pc' = handed
  /\ args' = a
  /\ exc' = "AssertionError"
  /\ ret' = NoText
  /\ steps' = <<>>
  /\ pre' = NoRecord
  /\ updated' = FALSE
  /\ rc' = IF handed = "done" THEN <<ExitCode("AssertionError")>> ELSE <<>>
  /\ out' = <<>>
  /\ UNCHANGED <<disk, bound, hashc, environ, envcache, purevars>>

\* Cli.do_install up to its try statement.  Its caller is cmd_install or
\* cmd_run; which of the two shows only after it has handed back.
CallDoInstall(raw, update, clean) ==
  LET spec == NormalizePackageSpec(raw)
      a == [cmd |-> "install", raw |-> raw, update |-> update,
            clean |-> clean]
  IN  /\ pc = "idle"
      /\ IF SetterAccepts(bound, spec)
         THEN /\ bound' = spec
              /\ hashc' = HashAfterBind(spec)
              /\ pre' = disk[hashc']
              /\ args' = a
              /\ pc' = "os_prereq"
              /\ exc' = None
              /\ ret' = NoText
              /\ steps' = <<>>
              /\ updated' = FALSE
              /\ UNCHANGED <<disk, clivars, purevars>>
         ELSE BindFails(a, "handed")

\* A step of do_install raises `e`: control goes to the except clause.
Raise(e) ==
  /\ pc' = "rollback"
  /\ exc' = e

\* The prerequisite step with a fault: a failing apt-get is passed over.
OsPrereqBestEffort(outcome) == [pc |-> "decide", exc |-> None]

\* Where the prerequisite step leaves do_install: check_call raises when
\* apt-get exits nonzero.
OsPrereqResult(outcome) ==
  IF outcome = "failed"
  THEN [pc |-> "rollback", exc |-> "CalledProcessError:apt-get"]
  ELSE [pc |-> "decide", exc |-> None]

\* The host OS prerequisites: nothing is missing, or apt-get installs what
\* is, or apt-get fails (as does a dpkg-query that cannot be run).
OsPrereq(outcome) ==
  /\ pc = "os_prereq"
  /\ Log(IF outcome = "present" THEN <<>>
         ELSE IF outcome = "installed" THEN <<"apt_get_ok">>
         ELSE <<"apt_get_fail">>)
  /\ pc' = OsPrereqResult(outcome).pc
  /\ exc' = OsPrereqResult(outcome).exc
  /\ UNCHANGED <<disk, bound, hashc, args, pre, updated, ret, clivars, purevars>>

\* The rebuild test with a fault: every call rebuilds.
NeedsRebuildAlways(clean, rec) == TRUE

\* The condition under which do_install removes the record directory.
NeedsRebuild(clean, rec) ==
  clean \/ ~rec.marker \/ ~rec.python \/ ~rec.pip

\* do_install removes the record directory when it has to be rebuilt.
Decide ==
  /\ pc = "decide"
  /\ IF NeedsRebuild(args.clean, Rec)
     THEN \E o \in RemoveAppdir(Rec) :
            /\ disk' = [disk EXCEPT ![hashc] = o.rec]
            /\ Log(o.log)
     ELSE UNCHANGED <<disk, steps>>
  /\ pc' = "makedirs"
  /\ UNCHANGED <<bound, hashc, args, pre, updated, exc, ret, clivars, purevars>>

\* os.makedirs(app_dir) when the directory is not there.
Makedirs(ok) ==
  /\ pc = "makedirs"
  /\ IF Rec.dir
     THEN /\ ok
          /\ pc' = "install_venv"
          /\ UNCHANGED <<disk, steps, exc>>
     ELSE IF ok
     THEN /\ disk' = [disk EXCEPT ![hashc].dir = TRUE]
          /\ Log(<<"makedirs">>)
          /\ pc' = "install_venv"
          /\ UNCHANGED exc
     ELSE /\ Log(<<"makedirs_fail">>)
          /\ Raise("OSError:makedirs")
          /\ UNCHANGED disk
  /\ UNCHANGED <<bound, hashc, args, pre, updated, ret, clivars, purevars>>

\* Cli.install_venv when the environment has no pip3: the user's own pip and
\* the venv module are made available; nothing in the record changes.
InstallVenv(ok) ==
  /\ pc = "install_venv"
  /\ IF Rec.pip
     THEN /\ ok
          /\ pc' = "create_venv"
          /\ UNCHANGED <<steps, exc>>
     ELSE IF ok
     THEN /\ Log(<<"install_venv">>)
          /\ pc' = "create_venv"
          /\ UNCHANGED exc
     ELSE /\ Log(<<"install_venv_fail">>)
          /\ Raise("CalledProcessError:install_venv")
  /\ UNCHANGED <<disk, bound, hashc, args, pre, updated, ret, clivars, purevars>>

\* venv.EnvBuilder(clear=clean).create(app_venv_dir) when there is no
\* environment directory: the directory with its python3, without pip3.  A
\* failing creation may leave the directory behind.
CreateVenv(ok, partial) ==
  /\ pc = "create_venv"
  /\ IF Rec.venv
     THEN /\ ok /\ ~partial
          /\ pc' = "envs"
          /\ UNCHANGED <<disk, steps, exc, updated>>
     ELSE IF ok
     THEN /\ ~partial
          /\ disk' = [disk EXCEPT ![hashc].venv = TRUE, ![hashc].python = TRUE]
          /\ updated' = TRUE
          /\ Log(<<"venv_create">>)
          /\ pc' = "envs"
          /\ UNCHANGED exc
     ELSE /\ disk' = [disk EXCEPT ![hashc].venv = partial]
          /\ Log(<<"venv_create_fail">>)
          /\ Raise("Error:venv_create")
          /\ UNCHANGED updated
  /\ UNCHANGED <<bound, hashc, args, pre, ret, clivars, purevars>>

\* Cli.app_venv_dir of the identity hex h
AppVenvDir(h) == AppDirOf(h) \o <<"/", ".", "v", "e", "n", "v">>

\* Cli.no_venv_env with a fault: os.environ itself is deactivated.
NoVenvEnvOfLive(live) ==
  [live |-> DeactivateVirtualenv(live), made |-> DeactivateVirtualenv(live)]

\* Cli.no_venv_env when it is unset: dict(os.environ) is a copy, and the
\* copy is deactivated; `live` is os.environ as this leaves it.
NoVenvEnvOfCopy(live) ==
  [live |-> live, made |-> DeactivateVirtualenv(live)]

\* Cli.venv_env with a fault: the deactivated map itself is activated.
VenvEnvOfBase(dir, base) ==
  [base |-> ActivateVirtualenv(dir, base).env,
   made |-> ActivateVirtualenv(dir, base).env,
   exc |-> ActivateVirtualenv(dir, base).exc]

\* Cli.venv_env when it is unset: dict(self.no_venv_env) is a copy, and the
\* copy is activated; `base` is the deactivated map as this leaves it.
VenvEnvOfCopy(dir, base) ==
  [base |-> base,
   made |-> ActivateVirtualenv(dir, base).env,
   exc |-> ActivateVirtualenv(dir, base).exc]

\* do_install reads self.no_venv_env and self.venv_env: each is built when
\* unset and kept.  The KeyError of an activation goes to the except
\* clause with _venv_env still unset.
BuildEnvs ==
  /\ pc = "envs"
  /\ LET n == IF no_venv_env = <<>> THEN NoVenvEnvOfCopy(environ)
              ELSE [live |-> environ, made |-> no_venv_env[1]]
         v == VenvEnvOfCopy(AppVenvDir(hashc), n.made)
     IN  /\ environ' = n.live
         /\ IF venv_env # <<>>
            THEN /\ pc' = "ensurepip"
                 /\ UNCHANGED <<envcache, steps, exc>>
            ELSE /\ no_venv_env' = <<v.base>>
                 /\ IF v.exc = None
                    THEN /\ venv_env' = <<v.made>>
                         /\ pc' = "ensurepip"
                         /\ UNCHANGED <<steps, exc>>
                    ELSE /\ venv_env' = <<>>
                         /\ Log(<<"venv_env_fail">>)
                         /\ Raise("KeyError")
  /\ UNCHANGED <<disk, bound, hashc, args, pre, updated, ret, shown, purevars>>

\* python3 -m ensurepip when the environment has no pip3; it cannot run
\* without the environment's python3.
EnsurePip(ok) ==
  /\ pc = "ensurepip"
  /\ IF Rec.pip
     THEN /\ ok
          /\ pc' = "pip_upgrade"
          /\ UNCHANGED <<disk, steps, exc>>
     ELSE IF ok
     THEN /\ Rec.python
          /\ disk' = [disk EXCEPT ![hashc].pip = TRUE]
          /\ Log(<<"ensurepip">>)
          /\ pc' = "pip_upgrade"
          /\ UNCHANGED exc
     ELSE /\ Log(<<"ensurepip_fail">>)
          /\ Raise("CalledProcessError:ensurepip")
          /\ UNCHANGED disk
  /\ UNCHANGED <<bound, hashc, args, pre, updated, ret, clivars, purevars>>

\* pip3 runs only with the environment's pip3 and python3 in place.
PipRuns == Rec.pip /\ Rec.python

\* pip3 install --upgrade pip, when update is asked for.
PipUpgrade(ok) ==
  /\ pc = "pip_upgrade"
  /\ IF ~args.update
     THEN /\ ok
          /\ pc' = "wheel"
          /\ UNCHANGED <<steps, exc>>
     ELSE IF ok
     THEN /\ PipRuns
          /\ Log(<<"pip_upgrade">>)
          /\ pc' = "wheel"
          /\ UNCHANGED exc
     ELSE /\ Log(<<"pip_upgrade_fail">>)
          /\ Raise("CalledProcessError:pip_upgrade")
  /\ UNCHANGED <<disk, bound, hashc, args, pre, updated, ret, clivars, purevars>>

\* The condition under which do_install installs wheel and the package.
InstallsPackage(update, is_updated_venv) == update \/ is_updated_venv

\* pip3 install [--upgrade] wheel
Wheel(ok) ==
  /\ pc = "wheel"
  /\ IF ~InstallsPackage(args.update, updated)
     THEN /\ ok
          /\ pc' = "marker"
          /\ UNCHANGED <<steps, exc>>
     ELSE IF ok
     THEN /\ PipRuns
          /\ Log(IF args.update THEN <<"wheel_upgrade">> ELSE <<"wheel">>)
          /\ pc' = "package"
          /\ UNCHANGED exc
     ELSE /\ Log(<<"wheel_fail">>)
          /\ Raise("CalledProcessError:wheel")
  /\ UNCHANGED <<disk, bound, hashc, args, pre, updated, ret, clivars, purevars>>

\* The package command with a fault: the upgrade is not eager.
PackageCommandPlain(update) == <<"package">>

\* The pip3 command that installs the package: with update, --upgrade
\* --upgrade-strategy eager.
PackageCommand(update) ==
  IF update THEN <<"package_upgrade_eager">> ELSE <<"package">>

\* pip3 install [--upgrade --upgrade-strategy eager] <package spec>; a
\* failing install may leave the package half installed.
Package(ok, broken) ==
  /\ pc = "package"
  /\ IF ok
     THEN /\ ~broken
          /\ PipRuns
          /\ disk' = [disk EXCEPT ![hashc].pkg = TRUE]
          /\ Log(PackageCommand(args.update))
          /\ pc' = "marker"
          /\ UNCHANGED exc
     ELSE /\ disk' = [disk EXCEPT ![hashc].pkg = Rec.pkg /\ ~broken]
          /\ Log(<<"package_fail">>)
          /\ Raise("CalledProcessError:package")
  /\ UNCHANGED <<bound, hashc, args, pre, updated, ret, clivars, purevars>>

\* The marker's content with a fault: the raw specification is written.
MarkerTextRaw == args.raw

\* What do_install writes to package-spec.txt.
MarkerText == bound

\* The marker file is written when it is not there, and do_install returns
\* app_dir.  A failing write may leave an empty file.
WriteMarker(ok, partial) ==
  /\ pc = "marker"
  /\ IF Rec.marker
     THEN /\ ok /\ ~partial
          /\ pc' = "handed"
          /\ ret' = AppDirOf(hashc)
          /\ UNCHANGED <<disk, steps, exc>>
     ELSE IF ok
     THEN /\ ~partial
          /\ disk' = [disk EXCEPT ![hashc].marker = TRUE,
                                  ![hashc].content = MarkerText]
          /\ Log(<<"write_marker">>)
          /\ pc' = "handed"
          /\ ret' = AppDirOf(hashc)
          /\ UNCHANGED exc
     ELSE /\ disk' = [disk EXCEPT ![hashc].marker = partial,
                                  ![hashc].content =
                                     IF partial THEN <<>> ELSE NoText]
          /\ Log(<<"write_marker_fail">>)
          /\ Raise("OSError:write_marker")
          /\ UNCHANGED ret
  /\ UNCHANGED <<bound, hashc, args, pre, updated, clivars, purevars>>

\* The except clause of do_install: remove_appdir, whose own failure is
\* passed over, and the exception is raised again.
Rollback ==
  /\ pc = "rollback"
  /\ \E o \in RemoveAppdir(Rec) :
       /\ disk' = [disk EXCEPT ![hashc] = o.rec]
       /\ Log(o.log)
  /\ pc' = "handed"
  /\ UNCHANGED <<bound, hashc, args, pre, updated, exc, ret, clivars, purevars>>

\* do_install has handed back to cmd_install, or has raised (the exception
\* passes through cmd_install and cmd_run alike): the command is over.
\* (The path file cmd_install may write lies outside the record.)
FinishInstall ==
  /\ pc = "handed"
  /\ pc' = "idle"
  /\ args' = NoArgs
  /\ pre' = NoRecord
  /\ updated' = FALSE
  /\ steps' = <<>>
  /\ exc' = None
  /\ ret' = NoText
  /\ UNCHANGED <<disk, bound, hashc, clivars, purevars>>

\* do_install has returned to cmd_run: the user's command runs in the
\* environment; check_call raises when it exits nonzero.
RunAppCmd(ok) ==
  /\ pc = "handed"
  /\ exc = None
  /\ pc' = "done"
  /\ args' = [args EXCEPT !.cmd = "run"]
  /\ exc' = IF ok THEN None ELSE "CalledProcessError:app_cmd"
  /\ rc' = <<ExitCode(exc')>>
  /\ UNCHANGED <<disk, bound, hashc, pre, updated, steps, ret, environ,
                 envcache, out, purevars>>

\* Cli.cmd_uninstall: rm -fr of the record directory, its exit status not
\* looked at.
CmdUninstall(raw) ==
  LET spec == NormalizePackageSpec(raw)
      a == [cmd |-> "uninstall", raw |-> raw, update |-> FALSE,
            clean |-> FALSE]
      h == HashAfterBind(spec)
  IN  /\ pc = "idle"
      /\ IF ~SetterAccepts(bound, spec) THEN BindFails(a, "done")
         ELSE /\ bound' = spec
              /\ hashc' = h
              /\ args' = a
              /\ pre' = disk[h]
              /\ pc' = "done"
              /\ ret' = NoText
              /\ updated' = FALSE
              /\ IF ~disk[h].dir
                 THEN /\ exc' = "CmdExitError"
                      /\ steps' = <<>>
                      /\ UNCHANGED disk
                 ELSE \E o \in RmTree(disk[h]) :
                        /\ disk' = [disk EXCEPT ![h] = o.rec]
                        /\ steps' = o.log
                        /\ exc' = None
              /\ rc' = <<ExitCode(exc')>>
              /\ UNCHANGED <<environ, envcache, out, purevars>>

\* Cli.cmd_locate
CmdLocate(raw) ==
  LET spec == NormalizePackageSpec(raw)
      a == [cmd |-> "locate", raw |-> raw, update |-> FALSE, clean |-> FALSE]
      h == HashAfterBind(spec)
  IN  /\ pc = "idle"
      /\ IF ~SetterAccepts(bound, spec) THEN BindFails(a, "done")
         ELSE /\ bound' = spec
              /\ hashc' = h
              /\ args' = a
              /\ pre' = disk[h]
              /\ pc' = "done"
              /\ steps' = <<>>
              /\ updated' = FALSE
              /\ exc' = IF disk[h].dir THEN None ELSE "CmdExitError"
              /\ ret' = IF disk[h].dir THEN AppDirOf(h) ELSE NoText
              /\ out' = IF disk[h].dir THEN <<AppDirOf(h)>> ELSE <<>>
              /\ rc' = <<ExitCode(exc')>>
              /\ UNCHANGED <<disk, environ, envcache, purevars>>

\* The code point of a character, which orders Python's strings.
Ord(c) ==
  CASE c = " " -> 32 [] c = "#" -> 35 [] c = "%" -> 37 [] c = "." -> 46
    [] c = "/" -> 47 [] c = "2" -> 50 [] c = "3" -> 51 [] c = ":" -> 58
    [] c = "A" -> 65 [] c = "a" -> 97 [] c = "e" -> 101 [] c = "f" -> 102
    [] c = "g" -> 103 [] c = "h" -> 104 [] c = "i" -> 105 [] c = "l" -> 108
    [] c = "p" -> 112 [] c = "w" -> 119 [] c = "z" -> 122 [] c = "~" -> 126

\* a < b for Python's strings
RECURSIVE StrLess(_, _)
StrLess(a, b) ==
  IF b = <<>> THEN FALSE
  ELSE IF a = <<>> THEN TRUE
  ELSE IF Head(a) = Head(b) THEN StrLess(Tail(a), Tail(b))
  ELSE Ord(Head(a)) < Ord(Head(b))

\* The place of line x in the sorted sequence q.
RECURSIVE Insert(_, _)
Insert(x, q) ==
  IF q = <<>> THEN <<x>>
  ELSE IF StrLess(x, Head(q)) THEN <<x>> \o q
  ELSE <<Head(q)>> \o Insert(x, Tail(q))

\* results.sort() with a fault: the lines stay as they were read.
Unsorted(q) == q

\* results.sort()
RECURSIVE SortLines(_)
SortLines(q) ==
  IF q = <<>> THEN <<>> ELSE Insert(Head(q), SortLines(Tail(q)))

\* str.rstrip(): the white space at the end is cut off.
RECURSIVE Rstrip(_)
Rstrip(t) ==
  IF t = <<>> THEN t
  ELSE IF t[Len(t)] \in {" ", "\n", "\t"}
       THEN Rstrip(SubSeq(t, 1, Len(t) - 1))
  ELSE t

\* os.listdir(apps_dir): the record directories, in any order.
Listings(d) ==
  LET names == {h \in DOMAIN d : d[h].dir}
  IN  {q \in SeqsUpTo(names, Cardinality(names)) :
         Len(q) = Cardinality(names) /\ \A i, j \in 1..Len(q) :
                                          q[i] = q[j] => i = j}

\* The loop of cmd_ls: of every entry that has a marker file, the stripped
\* content of the file.
RECURSIVE LsResults(_, _)
LsResults(d, listing) ==
  IF listing = <<>> THEN <<>>
  ELSE IF d[Head(listing)].marker
       THEN <<Rstrip(d[Head(listing)].content)>>
              \o LsResults(d, Tail(listing))
  ELSE LsResults(d, Tail(listing))

\* Cli.cmd_ls: no specification is bound; the sorted lines are printed.
CmdLs ==
  /\ pc = "idle"
  /\ \E listing \in Listings(disk) :
       out' = SortLines(LsResults(disk, listing))
  /\ pc' = "done"
  /\ args' = [NoArgs EXCEPT !.cmd = "ls"]
  /\ pre' = NoRecord
  /\ updated' = FALSE
  /\ steps' = <<>>
  /\ exc' = None
  /\ ret' = NoText
  /\ rc' = <<ExitCode(exc')>>
  /\ UNCHANGED <<disk, bound, hashc, environ, envcache, purevars>>

\* The command is over: the Cli object is ready for the next call.
EndCommand ==
  /\ pc = "done"
  /\ pc' = "idle"
  /\ args' = NoArgs
  /\ pre' = NoRecord
  /\ updated' = FALSE
  /\ steps' = <<>>
  /\ exc' = None
  /\ ret' = NoText
  /\ rc' = <<>>
  /\ out' = <<>>
  /\ UNCHANGED <<disk, bound, hashc, environ, envcache, purevars>>

Init ==
  /\ disk = [h \in Identities |-> NoRecord]
  /\ bound = NoText
  /\ hashc = NoText
  /\ pc = "idle"
  /\ args = NoArgs
  /\ pre = NoRecord
  /\ updated = FALSE
  /\ steps = <<>>
  /\ exc = None
  /\ ret = NoText
  /\ environ \in Environs
  /\ no_venv_env = <<>>
  /\ venv_env = <<>>
  /\ rc = <<>>
  /\ out = <<>>
  /\ nraw = NoText
  /\ nonce = NoText
  /\ ntwice = NoText
  /\ dirname = NoText
  /\ trail = <<>>
  /\ ops = <<>>
  /\ env = NoEnv
  /\ acts = <<>>
  /\ envexc = None

Next ==
  \/ NewCli
  \/ \E raw \in RawSpecs, u \in BOOLEAN, c \in BOOLEAN :
       CallDoInstall(raw, u, c)
  \/ \E outcome \in {"present", "installed", "failed"} : OsPrereq(outcome)
  \/ Decide
  \/ \E ok \in BOOLEAN : Makedirs(ok)
  \/ \E ok \in BOOLEAN : InstallVenv(ok)
  \/ \E ok \in BOOLEAN, partial \in BOOLEAN : CreateVenv(ok, partial)
  \/ BuildEnvs
  \/ \E ok \in BOOLEAN : EnsurePip(ok)
  \/ \E ok \in BOOLEAN : PipUpgrade(ok)
  \/ \E ok \in BOOLEAN : Wheel(ok)
  \/ \E ok \in BOOLEAN, broken \in BOOLEAN : Package(ok, broken)
  \/ \E ok \in BOOLEAN, partial \in BOOLEAN : WriteMarker(ok, partial)
  \/ Rollback
  \/ FinishInstall
  \/ \E ok \in BOOLEAN : RunAppCmd(ok)
  \/ \E raw \in RawSpecs : CmdUninstall(raw)
  \/ \E raw \in RawSpecs : CmdLocate(raw)
  \/ CmdLs
  \/ EndCommand

Spec == Init /\ [][Next]_vars

-----------------------------------------------------------------------------
(* Listing: sessions on two registry references, one of them with a space  *)
(* at its end, in which every external step of do_install but rm succeeds. *)

SpecATrailing == <<"a", " ">>
LsSpecs == {SpecA, SpecATrailing}
LsIdentities == {Sha1Hex(NormalizePackageSpec(r)) : r \in LsSpecs}

InitLs ==
  /\ disk = [h \in LsIdentities |-> NoRecord]
  /\ bound = NoText
  /\ hashc = NoText
  /\ pc = "idle"
  /\ args = NoArgs
  /\ pre = NoRecord
  /\ updated = FALSE
  /\ steps = <<>>
  /\ exc = None
  /\ ret = NoText
  /\ environ \in Environs
  /\ no_venv_env = <<>>
  /\ venv_env = <<>>
  /\ rc = <<>>
  /\ out = <<>>
  /\ nraw = NoText
  /\ nonce = NoText
  /\ ntwice = NoText
  /\ dirname = NoText
  /\ trail = <<>>
  /\ ops = <<>>
  /\ env = NoEnv
  /\ acts = <<>>
  /\ envexc = None

NextLs ==
  \/ NewCli
  \/ \E raw \in LsSpecs, u \in BOOLEAN, c \in BOOLEAN :
       CallDoInstall(raw, u, c)
  \/ \E outcome \in {"present", "installed"} : OsPrereq(outcome)
  \/ Decide
  \/ Makedirs(TRUE)
  \/ InstallVenv(TRUE)
  \/ CreateVenv(TRUE, FALSE)
  \/ BuildEnvs
  \/ EnsurePip(TRUE)
  \/ PipUpgrade(TRUE)
  \/ Wheel(TRUE)
  \/ Package(TRUE, FALSE)
  \/ WriteMarker(TRUE, FALSE)
  \/ Rollback
  \/ FinishInstall
  \/ \E ok \in BOOLEAN : RunAppCmd(ok)
  \/ \E raw \in LsSpecs : CmdUninstall(raw)
  \/ \E raw \in LsSpecs : CmdLocate(raw)
  \/ CmdLs
  \/ EndCommand

SpecLs == InitLs /\ [][NextLs]_vars

-----------------------------------------------------------------------------
(* Normalization alone: a raw specification is drawn, normalized, and the *)
(* result normalized again.                                                *)

RawStrings == StringsUpTo(MaxSpecLen)

NormalizeOnce ==
  /\ nonce = NoText
  /\ nonce' = NormalizePackageSpec(nraw)
  /\ UNCHANGED <<disk, bound, hashc, pc, args, pre, updated, steps, exc, ret,
                 clivars,
                 nraw, ntwice, searchvars, envvars>>

NormalizeAgain ==
  /\ nonce # NoText
  /\ ntwice = NoText
  /\ ntwice' = NormalizePackageSpec(nonce)
  /\ UNCHANGED <<disk, bound, hashc, pc, args, pre, updated, steps, exc, ret,
                 clivars,
                 nraw, nonce, searchvars, envvars>>

InitNorm ==
  /\ nraw \in RawStrings
  /\ nonce = NoText
  /\ ntwice = NoText
  /\ disk = <<>>
  /\ bound = NoText
  /\ hashc = NoText
  /\ pc = "idle"
  /\ args = NoArgs
  /\ pre = NoRecord
  /\ updated = FALSE
  /\ steps = <<>>
  /\ exc = None
  /\ ret = NoText
  /\ environ = NoEnv
  /\ no_venv_env = <<>>
  /\ venv_env = <<>>
  /\ rc = <<>>
  /\ out = <<>>
  /\ dirname = NoText
  /\ trail = <<>>
  /\ ops = <<>>
  /\ env = NoEnv
  /\ acts = <<>>
  /\ envexc = None

NextNorm == NormalizeOnce \/ NormalizeAgain

SpecNorm == InitNorm /\ [][NextNorm]_vars

-----------------------------------------------------------------------------
(* Search paths alone: a sequence of directories and a directory are drawn *)
(* and the operations that change a search path are applied to them.       *)

\* Longest sequence of directories drawn, and most operations applied.
MaxParts == 3
MaxOps == 2

\* The entries of the sequences drawn.
PathEntries == {<<"/", "d">>, <<"/", "x">>, <<"/", "w", "/", "d">>}

\* The directories handed to the operations: one in normal form, one
\* relative to the working directory, one with a trailing separator and
\* the home directory.
DirNames == {<<"/", "d">>, <<"d">>, <<"/", "x", "/">>, <<"~">>}

\* The sequence the next operation is applied to.
Parts == trail[Len(trail)]

Apply(name, result) ==
  /\ trail # <<>>
  /\ Len(ops) < MaxOps
  /\ trail' = Append(trail, result)
  /\ ops' = Append(ops, name)
  /\ UNCHANGED <<disk, bound, hashc, pc, args, pre, updated, steps, exc, ret,
                 clivars,
                 normvars, dirname, envvars>>

RemoveDirOp == Apply("remove_dir", SearchpathPartsRemoveDir(Parts, dirname))

PrependOp == Apply("prepend", SearchpathPartsPrepend(Parts, dirname))

PrependIfMissingOp ==
  Apply("prepend_if_missing", SearchpathPartsPrependIfMissing(Parts, dirname))

ForceAppendOp ==
  Apply("force_append", SearchpathPartsForceAppend(Parts, dirname))

AppendOp == Apply("append", SearchpathPartsAppend(Parts, dirname))

InitSearch ==
  /\ dirname \in DirNames
  /\ trail \in {<<q>> : q \in SeqsUpTo(PathEntries, MaxParts)}
  /\ ops = <<>>
  /\ env = NoEnv
  /\ acts = <<>>
  /\ envexc = None
  /\ nraw = NoText
  /\ nonce = NoText
  /\ ntwice = NoText
  /\ disk = <<>>
  /\ bound = NoText
  /\ hashc = NoText
  /\ pc = "idle"
  /\ args = NoArgs
  /\ pre = NoRecord
  /\ updated = FALSE
  /\ steps = <<>>
  /\ exc = None
  /\ ret = NoText
  /\ environ = NoEnv
  /\ no_venv_env = <<>>
  /\ venv_env = <<>>
  /\ rc = <<>>
  /\ out = <<>>

NextSearch ==
  \/ RemoveDirOp
  \/ PrependOp
  \/ PrependIfMissingOp
  \/ ForceAppendOp
  \/ AppendOp

SpecSearch == InitSearch /\ [][NextSearch]_vars

-----------------------------------------------------------------------------
(* Activation alone: an environment map is drawn, and activate_virtualenv  *)
(* and deactivate_virtualenv are called on it; a call that raises ends the *)
(* sequence.                                                               *)

\* Most calls made on one map.
MaxActs == 3

\* The environment directories activated: two in normal form, one relative
\* to the working directory, one under the home directory.
EnvDirs == {<<"/", "v">>, <<"/", "u">>, <<"v">>, <<"~", "/", "v">>}

\* The maps drawn: with and without an activation, a companion flag and a
\* PATH; the PATH empty, without and with binary directories of the
\* environments, one of them twice.
StartMarkers == {NoText, <<"/", "v">>, <<"/", "o">>}
StartPaths ==
  {NoText, <<>>, <<"/", "b">>,
   <<"/", "v", "/", "b", "i", "n", ":", "/", "b">>,
   <<"/", "b", ":", "/", "u", "/", "b", "i", "n", ":", ":",
     "/", "v", "/", "b", "i", "n">>,
   <<"/", "v", "/", "b", "i", "n", ":", "/", "b", ":",
     "/", "v", "/", "b", "i", "n">>}
StartEnvs ==
  [VIRTUAL_ENV : StartMarkers, POETRY_ACTIVE : {NoText, <<"1">>},
   PATH : StartPaths]

Call(act, result) ==
  /\ Len(acts) < MaxActs
  /\ envexc = None
  /\ env' = result.env
  /\ envexc' = result.exc
  /\ acts' = Append(acts, act)
  /\ UNCHANGED <<disk, bound, hashc, pc, args, pre, updated, steps, exc, ret,
                 clivars,
                 normvars, searchvars>>

Activate(dir) ==
  Call([op |-> "activate", dir |-> dir], ActivateVirtualenv(dir, env))

Deactivate ==
  Call([op |-> "deactivate", dir |-> NoText],
       [env |-> DeactivateVirtualenv(env), exc |-> None])

InitEnv ==
  /\ env \in StartEnvs
  /\ acts = <<>>
  /\ envexc = None
  /\ dirname = NoText
  /\ trail = <<>>
  /\ ops = <<>>
  /\ nraw = NoText
  /\ nonce = NoText
  /\ ntwice = NoText
  /\ disk = <<>>
  /\ bound = NoText
  /\ hashc = NoText
  /\ pc = "idle"
  /\ args = NoArgs
  /\ pre = NoRecord
  /\ updated = FALSE
  /\ steps = <<>>
  /\ exc = None
  /\ ret = NoText
  /\ environ = NoEnv
  /\ no_venv_env = <<>>
  /\ venv_env = <<>>
  /\ rc = <<>>
  /\ out = <<>>

NextEnv ==
  \/ \E dir \in EnvDirs : Activate(dir)
  \/ Deactivate

SpecEnv == InitEnv /\ [][NextEnv]_vars

-----------------------------------------------------------------------------
(* Properties.                                                             *)

Has(step) == \E i \in 1..Len(steps) : steps[i] = step

\* Every occurrence of step a comes before every occurrence of step b.
Before(a, b) ==
  \A i, j \in 1..Len(steps) : (steps[i] = a /\ steps[j] = b) => i < j

RemovalSteps == {"rm_marker", "rm_tree_ok", "rm_tree_fail"}

\* The steps that build or change an environment.
ProvisioningSteps ==
  {"rm_marker", "rm_tree_ok", "rm_tree_fail", "makedirs", "install_venv",
   "venv_create", "ensurepip", "pip_upgrade", "wheel", "wheel_upgrade",
   "package", "package_upgrade_eager", "write_marker"}

\* The exception each failing step raises.
StepError(step) ==
  CASE step = "apt_get_fail" -> "CalledProcessError:apt-get"
    [] step = "makedirs_fail" -> "OSError:makedirs"
    [] step = "install_venv_fail" -> "CalledProcessError:install_venv"
    [] step = "venv_create_fail" -> "Error:venv_create"
    [] step = "venv_env_fail" -> "KeyError"
    [] step = "ensurepip_fail" -> "CalledProcessError:ensurepip"
    [] step = "pip_upgrade_fail" -> "CalledProcessError:pip_upgrade"
    [] step = "wheel_fail" -> "CalledProcessError:wheel"
    [] step = "package_fail" -> "CalledProcessError:package"
    [] step = "write_marker_fail" -> "OSError:write_marker"
    [] OTHER -> None

\* The record states a session can find.
IsReady(rec) == rec.marker /\ rec.python /\ rec.pip
IsAbsent(rec) == ~rec.dir \/ ~rec.marker
LacksBinaries(rec) == rec.marker /\ (~rec.python \/ ~rec.pip)

\* do_install has handed back to its caller, with a value or an exception
\* raised inside its try statement.
HandedBack == pc = "handed" /\ exc # "AssertionError"
Returned == HandedBack /\ exc = None
Failed == HandedBack /\ exc # None

\* The identity of the specification the running command was called with.
CalledIdentity == Sha1Hex(NormalizePackageSpec(args.raw))

\* C1: when a step of do_install raises, then as do_install hands the error
\* back the record directory of the identity does not exist (no marker, no
\* directory), and the error handed back is the one the failing step raised.
C1_RollbackLeavesNoRecord ==
  Failed =>
    /\ ~Rec.dir
    /\ ~Rec.marker
    /\ \E i \in 1..Len(steps) : StepError(steps[i]) = exc

\* What holds of the rollback whatever rm does: the marker file is gone and
\* the error is the failing step's; the directory is gone unless rm failed.
RollbackShortOfFailedRm ==
  Failed =>
    /\ ~Rec.marker
    /\ \E i \in 1..Len(steps) : StepError(steps[i]) = exc
    /\ ~Has("rm_tree_fail") => ~Rec.dir

\* C2: between commands every record is absent or a complete environment:
\* a marker file comes with the environment, its python3 and pip3, and a
\* package whose installation completed.
C2_MarkerMeansCompleteRecord ==
  pc = "idle" =>
    \A h \in Identities :
      disk[h].marker =>
        disk[h].venv /\ disk[h].python /\ disk[h].pip /\ disk[h].pkg

C4_CleanAlwaysRebuilds ==
  (Returned /\ args.clean) =>
    /\ pre.dir => Has("rm_tree_ok")
    /\ ~Has("rm_tree_fail")
    /\ Has("venv_create") /\ Has("ensurepip") /\ Has("write_marker")
    /\ Has("package") \/ Has("package_upgrade_eager")
    /\ Before("rm_tree_ok", "venv_create")
    /\ Before("venv_create", "ensurepip")
    /\ Before("ensurepip", "package")
    /\ Before("ensurepip", "package_upgrade_eager")
    /\ steps[Len(steps)] = "write_marker"

\* C5: a do_install that returns, having found the record absent or with a
\* marker but without python3 or pip3, has deleted what was there, created
\* the environment, bootstrapped pip, installed the package and written the
\* marker, in this order, the marker write being its last step.
C5_FullRebuildOrder ==
  (Returned /\ (IsAbsent(pre) \/ LacksBinaries(pre))) =>
    /\ pre.dir => Has("rm_tree_ok")
    /\ Has("venv_create") /\ Has("ensurepip") /\ Has("write_marker")
    /\ Has("package") \/ Has("package_upgrade_eager")
    /\ Before("rm_tree_ok", "venv_create")
    /\ Before("venv_create", "ensurepip")
    /\ Before("ensurepip", "package")
    /\ Before("ensurepip", "package_upgrade_eager")
    /\ steps[Len(steps)] = "write_marker"

\* C6: in a do_install with update the package is never installed before
\* pip itself was upgraded, and only with the eager upgrade strategy; when
\* it returns both upgrades ran; the marker is written only when it is not
\* there, so the marker of a Ready record is left as it was.
C6_UpgradeOrder ==
  (pc \notin {"idle", "done"} /\ exc # "AssertionError" /\ args.update) =>
    /\ ~Has("package") /\ ~Has("wheel")
    /\ Has("package_upgrade_eager") => Has("pip_upgrade")
    /\ Before("pip_upgrade", "wheel_upgrade")
    /\ Before("pip_upgrade", "package_upgrade_eager")
    /\ Has("write_marker") => (~pre.marker \/ Has("rm_marker"))
    /\ Returned =>
         /\ Has("pip_upgrade") /\ Has("package_upgrade_eager")
         /\ (IsReady(pre) /\ ~args.clean) =>
              /\ ~Has("write_marker") /\ ~Has("rm_marker")
              /\ Rec.marker /\ Rec.content = pre.content

C6_UpgradeHappens ==
  Returned /\ args.update /\ ~args.clean /\ IsReady(pre)

C8_MarkerHoldsCanonicalSpec ==
  /\ Returned =>
       /\ bound = NormalizePackageSpec(args.raw)
       /\ disk[CalledIdentity].marker
       /\ disk[CalledIdentity].content = NormalizePackageSpec(args.raw)
       /\ args.raw = SpecPath => disk[CalledIdentity].content = SpecUri
       /\ ret = AppDirOf(CalledIdentity)
  /\ pc = "idle" =>
       \A h \in Identities : disk[h].marker => Sha1Hex(disk[h].content) = h

C8_PathInstalled ==
  Returned /\ args.raw = SpecPath /\ Has("write_marker")

\* C9: once a specification is bound, a command called with a raw
\* specification of another normalized form fails with the assertion error
\* and changes neither the bound specification nor the disk; one of the
\* same normalized form is accepted; the bound specification changes only
\* with a new Cli object.
C9_SetOnceBinding ==
  [][ /\ (bound # NoText /\ pc = "idle" /\ pc' # "idle"
            /\ args'.raw # NoText) =>
           IF NormalizePackageSpec(args'.raw) = bound
           THEN exc' # "AssertionError" /\ bound' = bound
           ELSE exc' = "AssertionError" /\ bound' = bound /\ disk' = disk
      /\ (bound # NoText /\ bound' # bound) => (pc = "idle" /\ bound' = NoText)
    ]_vars

C9_RebindRejected ==
  exc = "AssertionError" /\ bound = SpecUri /\ args.raw = SpecA

\* C10: normalizing a normalized specification changes nothing, and a raw
\* specification that holds a scheme separator is its own normal form.
C10_NormalizeIdempotent ==
  /\ ntwice # NoText => ntwice = nonce
  /\ (nonce # NoText /\ Contains(nraw, ":")) => nonce = nraw

C10_PathNormalizedTwice ==
  ntwice # NoText /\ nonce # nraw /\ ~Contains(nraw, ":")

\* Search paths: the directory in normal form, the operation applied last
\* and the sequence it was applied to.
Dir == NormDir(dirname)
LastOp == ops[Len(ops)]
Given == trail[Len(trail) - 1]

Count(q, e) == Cardinality({i \in 1..Len(q) : q[i] = e})
NoDuplicates(q) == \A i, j \in 1..Len(q) : q[i] = q[j] => i = j
Others(q) == SelectSeq(q, LAMBDA x : x # Dir)

\* C14 as claimed: the result of every operation that changes a search path
\* has no entry twice, whatever sequence it was given.
C14_NoDuplicatesAfterMutation ==
  ops # <<>> => NoDuplicates(Parts)

\* C14 as amended: no operation brings in a duplicate; a sequence given
\* without duplicates comes back without duplicates; the other entries
\* keep their number and order; the directory itself is absent after
\* remove_dir, there once after prepend and force_append, and after
\* prepend_if_missing and append as often as before, or once if it was
\* missing.
C14_NoDuplicatesBroughtIn ==
  ops # <<>> =>
    /\ NoDuplicates(Given) => NoDuplicates(Parts)
    /\ Others(Parts) = Others(Given)
    /\ LastOp = "remove_dir" => Count(Parts, Dir) = 0
    /\ LastOp \in {"prepend", "force_append"} => Count(Parts, Dir) = 1
    /\ LastOp \in {"prepend_if_missing", "append"} =>
         Count(Parts, Dir) =
           (IF Count(Given, Dir) = 0 THEN 1 ELSE Count(Given, Dir))

C14_PrependMovesDirectory ==
  /\ ops = <<"prepend">>
  /\ NoDuplicates(Given) /\ Len(Given) = MaxParts
  /\ Given[MaxParts] = Dir /\ dirname # Dir
  /\ Parts[1] = Dir

\* C15 as claimed: after prepend_if_missing was applied twice with the same
\* directory, the sequence holds the directory once, in its first place.
C15_TwiceOnceAtFront ==
  ops = <<"prepend_if_missing", "prepend_if_missing">> =>
    Count(Parts, Dir) = 1 /\ Parts[1] = Dir

\* C15 as amended: prepend_if_missing applied a second time with the same
\* directory changes nothing; applied to a sequence that lacks the
\* directory it puts it in the first place, once, before the sequence
\* given; applied to a sequence that holds the directory it returns the
\* sequence as given (the directory stays where it was, as often as it
\* was).
C15_TwiceAsOnce ==
  /\ (ops # <<>> /\ LastOp = "prepend_if_missing") =>
       IF Count(Given, Dir) = 0
       THEN Parts = <<Dir>> \o Given /\ Count(Parts, Dir) = 1
       ELSE Parts = Given
  /\ ops = <<"prepend_if_missing", "prepend_if_missing">> =>
       /\ trail[3] = trail[2]
       /\ Count(trail[1], Dir) = 0 => (Count(Parts, Dir) = 1 /\ Parts[1] = Dir)

C15_TwiceOnMissing ==
  /\ ops = <<"prepend_if_missing", "prepend_if_missing">>
  /\ Count(trail[1], Dir) = 0 /\ trail[1] # <<>>
  /\ dirname # Dir

\* C16 as claimed: after append and after force_append the last entry is
\* the directory in normal form; after force_append the directory is there
\* once; the other entries keep their order.
C16_BothPutLast ==
  (ops # <<>> /\ LastOp \in {"append", "force_append"}) =>
    /\ Parts[Len(Parts)] = Dir
    /\ LastOp = "force_append" => Count(Parts, Dir) = 1
    /\ Others(Parts) = Others(Given)

\* C16 as amended: after force_append the last entry is the directory in
\* normal form and the directory is there once; append puts the directory
\* in the last place only when the sequence lacks it, and returns a
\* sequence that holds it as given; in both the other entries keep their
\* order.
C16_ForceAppendPutsLast ==
  /\ (ops # <<>> /\ LastOp = "force_append") =>
       /\ Parts = Others(Given) \o <<Dir>>
       /\ Parts[Len(Parts)] = Dir
       /\ Count(Parts, Dir) = 1
  /\ (ops # <<>> /\ LastOp = "append") =>
       /\ Parts = (IF Count(Given, Dir) = 0 THEN Given \o <<Dir>> ELSE Given)
       /\ Others(Parts) = Others(Given)

C16_ForceAppendMovesDirectory ==
  /\ ops = <<"force_append">>
  /\ Len(Given) = MaxParts /\ Given[1] = Dir /\ Given[MaxParts] # Dir
  /\ Count(Given, Dir) = 2

\* Activation: the binary directory of an environment directory, whether
\* a directory is an entry of the map's PATH, and the call made last.
BinOf(dir) == OsPathJoin(NormDir(dir), BinName)
OnPath(e, d) == e.PATH # NoText /\ InParts(SearchpathSplit(e.PATH), d)
LastAct == acts[Len(acts)]
OnlyActivations == \A i \in 1..Len(acts) : acts[i].op = "activate"

\* C11: after two or more activations in a row on one map, the activation
\* marker names the directory activated last, the binary directory of that
\* one is an entry of PATH, and the binary directory of no environment
\* activated before it is.
C11_OnlyLastActivationOnPath ==
  (Len(acts) >= 2 /\ OnlyActivations /\ envexc = None) =>
    /\ env.VIRTUAL_ENV = NormDir(LastAct.dir)
    /\ OnPath(env, BinOf(LastAct.dir))
    /\ \A i \in 1..(Len(acts) - 1) :
         BinOf(acts[i].dir) # BinOf(LastAct.dir)
           => ~OnPath(env, BinOf(acts[i].dir))

C11_SwitchedTwice ==
  /\ Len(acts) = 3 /\ OnlyActivations /\ envexc = None
  /\ acts[1].dir = <<"v">> /\ acts[2].dir = <<"/", "v">>
  /\ acts[3].dir = <<"/", "u">>
  /\ env.PATH = <<"/", "u", "/", "b", "i", "n", ":", "/", "b">>

\* C12: an activation of any map completes, and after the deactivation
\* that follows it the map has no activation marker and its PATH does not
\* hold the binary directory of the environment that was activated.
C12_ActivationRoundTrip ==
  /\ (acts # <<>> /\ LastAct.op = "activate") => envexc = None
  /\ (Len(acts) >= 2 /\ LastAct.op = "deactivate"
        /\ acts[Len(acts) - 1].op = "activate") =>
       /\ env.VIRTUAL_ENV = NoText
       /\ ~OnPath(env, BinOf(acts[Len(acts) - 1].dir))

\* What holds of the round trip: it is as claimed on every map that has a
\* PATH, and on a map without one the activation raises KeyError with the
\* marker already set.
RoundTripGivenPath ==
  /\ (acts # <<>> /\ LastAct.op = "activate") =>
       IF env.PATH # NoText THEN envexc = None
       ELSE envexc = "KeyError" /\ env.VIRTUAL_ENV = NormDir(LastAct.dir)
  /\ (Len(acts) >= 2 /\ LastAct.op = "deactivate"
        /\ acts[Len(acts) - 1].op = "activate") =>
       /\ env.VIRTUAL_ENV = NoText
       /\ env.POETRY_ACTIVE = NoText
       /\ ~OnPath(env, BinOf(acts[Len(acts) - 1].dir))

\* A step that starts a new session (of this or of another process).
NewSession == bound # NoText /\ bound' = NoText

\* C13: within a session no step changes os.environ, and a map that was
\* built is never changed afterwards, so that building the activated map
\* leaves the deactivated map as it was; the deactivated map is built as
\* os.environ deactivated and carries no activation, and the activated map
\* is built as the deactivated map with the environment of the bound
\* identity activated.
C13_PrivateCopies ==
  [][~NewSession =>
       /\ environ' = environ
       /\ no_venv_env # <<>> => no_venv_env' = no_venv_env
       /\ venv_env # <<>> => venv_env' = venv_env
       /\ (no_venv_env = <<>> /\ no_venv_env' # <<>>) =>
            /\ no_venv_env'[1] = DeactivateVirtualenv(environ)
            /\ no_venv_env'[1].VIRTUAL_ENV = NoText
       /\ (venv_env = <<>> /\ venv_env' # <<>>) =>
            /\ no_venv_env' # <<>>
            /\ venv_env'[1].VIRTUAL_ENV = AppVenvDir(hashc)
            /\ venv_env'[1]
                 = ActivateVirtualenv(AppVenvDir(hashc), no_venv_env'[1]).env
    ]_vars

C13_RunInsideActivation ==
  /\ pc = "done" /\ args.cmd = "run" /\ exc = None
  /\ environ = EnvActivated
  /\ no_venv_env = <<[VIRTUAL_ENV |-> NoText, POETRY_ACTIVE |-> NoText,
                      PATH |-> <<"/", "b">>]>>
  /\ venv_env # <<>> /\ venv_env[1].VIRTUAL_ENV = AppVenvDir(hashc)

\* The user's command of run has failed.
AppCmdFailed ==
  pc = "done" /\ args.cmd = "run" /\ exc = "CalledProcessError:app_cmd"

\* C17: the step in which the user's command of run fails changes nothing
\* on disk and runs no removal; the record is the one do_install handed
\* back, with its marker holding the bound specification, Ready if it was
\* handed back Ready; the command ends with a nonzero exit code.
C17_RunFailureKeepsRecord ==
  /\ [](AppCmdFailed =>
          /\ rc # <<>> /\ rc[1] # 0
          /\ Rec.marker /\ Rec.content = bound
          /\ ret = AppDirOf(hashc)
          /\ steps # <<>> => steps[Len(steps)] \notin RemovalSteps)
  /\ [][(pc = "handed" /\ pc' = "done") =>
          /\ disk' = disk
          /\ steps' = steps
          /\ IsReady(Rec) => IsReady(disk'[hashc'])]_vars

C17_RunFailedOnReady ==
  AppCmdFailed /\ IsReady(Rec) /\ Rec.pkg /\ Has("package") /\ rc = <<1>>

\* An uninstall or a locate that got past the binding is over.
Over(cmd) == pc = "done" /\ args.cmd = cmd /\ exc # "AssertionError"

\* C18: an uninstall that finds no record directory fails with the
\* not-installed error and a nonzero exit code and changes nothing; one
\* that finds a record directory returns with nothing left of it, neither
\* marker nor directory, so that a locate finds nothing either.
C18_UninstallRemovesRecord ==
  /\ Over("uninstall") =>
       IF ~pre.dir
       THEN /\ exc = "CmdExitError" /\ rc # <<>> /\ rc[1] # 0
            /\ Rec = pre /\ steps = <<>>
       ELSE exc = None /\ rc = <<0>> /\ Rec = NoRecord
  /\ (Over("locate") /\ ~pre.dir) => exc = "CmdExitError"

\* What holds of uninstall whatever rm does: it is as claimed when there
\* is no directory, and the directory is gone unless rm failed.
UninstallShortOfFailedRm ==
  Over("uninstall") =>
    IF ~pre.dir
    THEN /\ exc = "CmdExitError" /\ rc = <<1>>
         /\ Rec = pre /\ steps = <<>>
    ELSE /\ exc = None /\ rc = <<0>>
         /\ steps = <<"rm_tree_ok">> => Rec = NoRecord
         /\ steps \in {<<"rm_tree_ok">>, <<"rm_tree_fail">>}

\* C19: locate fails with the not-installed error and a nonzero exit code,
\* printing nothing, when the record directory does not exist or has no
\* marker file, and prints the record directory otherwise.
C19_LocateFailsWhenAbsent ==
  Over("locate") =>
    IF IsAbsent(pre)
    THEN exc = "CmdExitError" /\ rc # <<>> /\ rc[1] # 0 /\ out = <<>>
    ELSE exc = None /\ rc = <<0>> /\ out = <<AppDirOf(CalledIdentity)>>

\* What holds of locate: its test is the existence of the directory.
LocateTestsDirectory ==
  Over("locate") =>
    /\ Rec = pre
    /\ IF ~pre.dir
       THEN exc = "CmdExitError" /\ rc = <<1>> /\ out = <<>>
       ELSE exc = None /\ rc = <<0>> /\ out = <<AppDirOf(CalledIdentity)>>

\* ls is over; the record directories that have a marker file.
Listed == pc = "done" /\ args.cmd = "ls"
Marked == {h \in DOMAIN disk : disk[h].marker}
Lines == {out[i] : i \in 1..Len(out)}

\* C20: ls prints the specification of every record that has a marker
\* file, which is the canonical specification its directory is named
\* after, each once and nothing else, in ascending order, and exits with 0.
C20_LsPrintsInstalledSpecs ==
  Listed =>
    /\ rc = <<0>>
    /\ \A i, j \in 1..Len(out) : i < j => StrLess(out[i], out[j])
    /\ Lines = {disk[h].content : h \in Marked}
    /\ \A c \in Lines : Sha1Hex(c) \in Marked

\* What holds of ls: it prints, for every marker file, the content of the
\* file without the white space at its end, in ascending order.
LsPrintsStrippedMarkers ==
  Listed =>
    /\ rc = <<0>>
    /\ \A i, j \in 1..Len(out) : i < j => ~StrLess(out[j], out[i])
    /\ Lines = {Rstrip(disk[h].content) : h \in Marked}
    /\ Len(out) = Cardinality(Marked)

\* The two outcomes of the tree deletion; do_install is under way or has
\* handed back; it found a directory without marker file.
TreeRemovals == {"rm_tree_ok", "rm_tree_fail"}
Installing == args.cmd = "install" /\ exc # "AssertionError"
FoundLeftover == pre.dir /\ ~pre.marker

\* What holds of remove_appdir in do_install: where the record had a marker
\* file, its removal is logged right before the first tree deletion; a
\* failed tree deletion raises nothing (do_install goes on, or hands back
\* the error of the step that failed) and leaves a directory without marker
\* file, which is an absent record that do_install takes for one to rebuild.
MarkerGoesFirst ==
  Installing =>
    /\ \A i \in 1..Len(steps) :
         (/\ steps[i] \in TreeRemovals
          /\ pre.marker
          /\ \A j \in 1..(i - 1) : steps[j] \notin TreeRemovals)
           => (i > 1 /\ steps[i - 1] = "rm_marker")
    /\ (steps # <<>> /\ steps[Len(steps)] = "rm_tree_fail") =>
         /\ Rec.dir /\ ~Rec.marker
         /\ IsAbsent(Rec) /\ NeedsRebuild(FALSE, Rec)
         /\ \/ pc \notin {"rollback", "handed"} /\ exc = None
            \/ pc = "handed" /\ exc # None
                 /\ \E i \in 1..Len(steps) : StepError(steps[i]) = exc

\* A rebuild from nothing: the environment is created, pip bootstrapped,
\* the package installed and the marker written, in this order and after
\* the tree deletion.
RebuiltAfresh ==
  /\ Has("rm_tree_ok") \/ Has("rm_tree_fail")
  /\ Has("venv_create") /\ Has("ensurepip") /\ Has("write_marker")
  /\ Has("package") \/ Has("package_upgrade_eager")
  /\ \A r \in TreeRemovals : Before(r, "venv_create")
  /\ Before("venv_create", "ensurepip")
  /\ Before("ensurepip", "package")
  /\ Before("ensurepip", "package_upgrade_eager")
  /\ steps[Len(steps)] = "write_marker"

\* C21: remove_appdir removes the marker file before the tree and passes
\* over a failing tree deletion, so what a failed deletion leaves has no
\* marker file and is an absent record; and a do_install that finds such a
\* leftover and returns has rebuilt the environment afresh, reusing none of
\* it.
C21_LeftoverIsRebuilt ==
  /\ MarkerGoesFirst
  /\ (Returned /\ FoundLeftover) => RebuiltAfresh

\* What holds of a do_install that finds a leftover: it rebuilds afresh
\* unless its own tree deletion fails too.
LeftoverRebuiltShortOfFailedRm ==
  (Returned /\ FoundLeftover /\ ~Has("rm_tree_fail")) =>
    RebuiltAfresh /\ Has("rm_tree_ok")

\* A leftover with its environment is found, the tree deletion fails again,
\* and do_install returns having written the marker and nothing else.
LeftoverReused ==
  /\ Returned /\ FoundLeftover /\ pre.pip /\ ~pre.pkg
  /\ steps = <<"apt_get_ok", "rm_tree_fail", "write_marker">>

\* The specifications a session can bind, and for each its identity and
\* the .venv directory under the record directory of that identity.
CanonicalSpecs == {NormalizePackageSpec(r) : r \in RawSpecs \cup LsSpecs}
IdentityOf == [s \in CanonicalSpecs |-> Sha1Hex(s)]
VenvDirOf ==
  [s \in CanonicalSpecs |->
     OsPathJoin(AppDirOf(Sha1Hex(s)), <<".", "v", "e", "n", "v">>)]

\* The memoized fields agree with the bound specification: a cached hash
\* is the identity of the bound specification, and a cached activated map
\* names the .venv directory under the directory of that identity.
CachesAgree ==
  /\ hashc # NoText => (bound # NoText /\ hashc = IdentityOf[bound])
  /\ venv_env # <<>> =>
       /\ bound # NoText /\ hashc # NoText
       /\ venv_env[1].VIRTUAL_ENV = VenvDirOf[bound]

\* C22: every state a step of a session leads to has its memoized fields
\* in agreement with the bound specification, and once the hash or the
\* activated map is cached no step changes the bound specification: it
\* goes only with the Cli object, whose successor starts with nothing bound
\* and nothing cached.
C22_CachesFollowBoundSpec ==
  [][ /\ CachesAgree'
      /\ ((hashc # NoText \/ venv_env # <<>>) /\ bound' # bound) =>
           /\ bound' = NoText /\ hashc' = NoText
           /\ no_venv_env' = <<>> /\ venv_env' = <<>>
    ]_vars

\* With the hash and the activated map cached for a path specification, a
\* do_install with another specification has been refused, and both caches
\* are as they were filled.
C22_RebindRefusedWithCaches ==
  /\ pc = "handed" /\ exc = "AssertionError" /\ args.raw = SpecA
  /\ bound = SpecUri
  /\ hashc = Sha1Hex(SpecUri)
  /\ venv_env # <<>>
  /\ venv_env[1].VIRTUAL_ENV = AppVenvDir(Sha1Hex(SpecUri))

====
